---- MODULE Spec2Model ----
(***************************************************************************)
(* Multi-tenant WhatsApp session manager of backend/server.js: the         *)
(* whatsappClients registry, the per-user data directories, the four       *)
(* /api/users/:userId/whatsapp routes and the events of the protocol       *)
(* clients.  Node runs every handler to its next await without             *)
(* interleaving, so each action is one such run-to-await segment.          *)
(* client.info and client.isReady are written by the client library only:  *)
(* the model lets it set them at 'ready' and keep or drop them at           *)
(* 'disconnected'.  The account routes (register, login) work on          *)
(* users.json.  The dashboard page of frontend/script.js is modelled with  *)
(* the answers of its fetches as inputs.                                   *)
(***************************************************************************)
EXTENDS Integers, Sequences, FiniteSets, TLC

\* Bounds of the model.
MaxQr == 2         \* pairing-code requests that register listeners in one behaviour
MaxDisc == 2       \* disconnect requests awaiting client.destroy() at one time
MaxClients == 2    \* Client objects constructed in one behaviour
MaxCode == 2       \* pairing codes one client emits
MaxTimers == 2     \* setInterval timers of the page alive at one time
MaxFetch == 1      \* fetches of one kind the page has in flight at one time

\* the userIds of the requests: u1 is registered from the start, u2 only in
\* the specifications that start with two accounts
Identity == {"u1", "u2"}
NoClient == 0
ClientId == 1..MaxClients
NoFile == <<>>

\* Request bodies of the account routes: strings are sequences of characters.
\* Two well-formed emails, one without a dot after the @, and a missing one;
\* two passwords of six characters, one of three, and a missing one.
EmailA == <<"a", "@", "x", ".", "y">>
EmailB == <<"b", "@", "x", ".", "y">>
Emails == {EmailA, EmailB, <<"a", "@", "x">>, <<>>}
PasswordP == <<"p", "a", "s", "s", "w", "d">>
PasswordQ == <<"q", "w", "e", "r", "t", "y">>
Passwords == {PasswordP, PasswordQ, <<"p", "w", "d">>, <<>>}

VARIABLES
    usersFile,        \* the array of users stored in data/users.json
    whatsappClients,  \* the registry Map: userId -> Client object (NoClient: no entry)
    clients,          \* every Client object ever constructed, by object identity
    userData,         \* userData/<userId>: does the directory exist, and its qr-code.png
    qrReqs,           \* the pairing-code requests that registered listeners, in
                      \* arrival order: the listeners keep their res
    destroying,       \* per Client, the disconnect requests awaiting its destroy()
    last,             \* the request handled most recently and its answer ("none"
                      \* while its res is held)
    tasks,            \* invocations of the async 'qr' listener awaiting the rendering
    currentUser,      \* script.js: is a user logged in on the page (null or not)
    qrCodeInterval,   \* script.js: the interval id kept for clearInterval (0: null)
    timers,           \* the page's setInterval timers that are active
    statusText,       \* the text of the page's #statusText element
    pending           \* the page's fetches in flight, by the function awaiting them

\* the state of the server and the state of the page
server == <<usersFile, whatsappClients, clients, userData, qrReqs, destroying, last,
            tasks>>
page == <<currentUser, qrCodeInterval, timers, statusText, pending>>
vars == <<usersFile, whatsappClients, clients, userData, qrReqs, destroying, last, tasks,
          currentUser, qrCodeInterval, timers, statusText, pending>>

\* the functions of the page that await a fetch: getQRCode, checkWhatsAppStatus
\* called from the page, checkWhatsAppStatus called from the interval
\* callback, disconnectWhatsApp
Awaiting == {"qr", "status", "poll", "disconnect"}

\* the page as loaded with no saved user
PageInit ==
    /\ currentUser = FALSE
    /\ qrCodeInterval = 0
    /\ timers = {}
    /\ statusText = "Checking..."
    /\ pending = [k \in Awaiting |-> 0]

Unbuilt ==
    [userId |-> "none", info |-> FALSE, isReady |-> FALSE, initCalls |-> 0,
     destroyed |-> FALSE, listeners |-> <<>>, codes |-> 0, phase |-> "none"]

NoReq ==
    [kind |-> "none", userId |-> "none", client |-> NoClient, resp |-> "none",
     err |-> "none"]

Init ==
    /\ usersFile = <<[userId |-> "u1", email |-> EmailA, password |-> PasswordP]>>
    /\ whatsappClients = [u \in Identity |-> NoClient]
    /\ clients = [c \in ClientId |-> Unbuilt]
    /\ userData = [u \in Identity |-> [exists |-> FALSE, qr |-> NoFile]]
    /\ qrReqs = <<>>
    /\ destroying = [c \in ClientId |-> 0]
    /\ last = NoReq
    /\ tasks = {}
    /\ PageInit

----------------------------------------------------------------------------
\* Helpers

Built == {c \in ClientId : clients[c].userId # "none"}
\* the object identity the next "new Client(...)" gets
NewId == Cardinality(Built) + 1
\* constructed and not yet shut down by client.destroy()
Live(c) == clients[c].userId # "none" /\ ~clients[c].destroyed
ClientsOf(u) == {c \in ClientId : clients[c].userId = u}

RECURSIVE Sum(_, _)
Sum(f, S) ==
    IF S = {} THEN 0
    ELSE LET x == CHOOSE y \in S : TRUE IN f[x] + Sum(f, S \ {x})

\* the pairing-code request being received now, if it registers listeners
Rid == Len(qrReqs) + 1

\* a request, the Client its handler got from the registry and its answer
Answer(kind, u, c, resp, err) ==
    [kind |-> kind, userId |-> u, client |-> c, resp |-> resp, err |-> err]

\* one call of res.json on a held res: the first call is delivered, a later
\* one is a further send on a finished response
Send(q, resp) ==
    [q EXCEPT !.sends = @ + 1, !.resp = IF q.sends = 0 THEN resp ELSE @]

\* authenticateUser without its lookup in users.json
authenticateAnyone(u) == TRUE

\* the userIds of the users in users.json
StoredIds == {usersFile[i].userId : i \in 1..Len(usersFile)}

\* authenticateUser: users.find(u => u.userId === userId)
authenticateUser(u) == \E i \in 1..Len(usersFile) : usersFile[i].userId = u

\* the status route answering with a tag of its own
StatusAnswerOther(client) ==
    IF client.isReady /\ client.info THEN "connected" ELSE "not_connected"

\* the status route's answer for the Client it got
StatusAnswer(client) ==
    IF client.isReady /\ client.info THEN "connected" ELSE "disconnected"

\* the qr-image route's answer: fs.existsSync(qrCodePath)
QrImageAnswer(u) ==
    IF userData[u].exists /\ userData[u].qr # NoFile THEN "file" ELSE "not_found"

\* getOrCreateWhatsAppClient without its has() test
MapAlwaysNew(u) == [whatsappClients EXCEPT ![u] = NewId]

\* getOrCreateWhatsAppClient: the registry after the call
MapAfterGetOrCreate(u) ==
    IF whatsappClients[u] = NoClient
    THEN [whatsappClients EXCEPT ![u] = NewId]
    ELSE whatsappClients

\* createWhatsAppClient: the Client objects after getOrCreateWhatsAppClient
ClientsAfterGetOrCreate(u) ==
    IF MapAfterGetOrCreate(u)[u] = whatsappClients[u]
    THEN clients
    ELSE [clients EXCEPT ![NewId] = [Unbuilt EXCEPT !.userId = u]]

\* createWhatsAppClient: the directories after getOrCreateWhatsAppClient
DataAfterGetOrCreate(u) ==
    IF MapAfterGetOrCreate(u)[u] = whatsappClients[u]
    THEN userData
    ELSE [userData EXCEPT ![u].exists = TRUE]

\* getOrCreateWhatsAppClient can run: an entry exists or a Client can be built
CanGetOrCreate(u) ==
    MapAfterGetOrCreate(u)[u] = whatsappClients[u] \/ NewId <= MaxClients

----------------------------------------------------------------------------
\* authenticateUser rejects an unknown userId on every whatsapp route
Rejected(kind, u) ==
    /\ ~authenticateUser(u)
    /\ last' = Answer(kind, u, NoClient, "not_found", "none")
    /\ UNCHANGED <<page, usersFile, whatsappClients, clients, userData, qrReqs,
                   destroying, tasks>>

\* mkdirSync throwing after whatsappClients.set instead of before it
GetOrCreateFailsAfterSet(kind, u) ==
    /\ authenticateUser(u)
    /\ whatsappClients[u] = NoClient
    /\ ~userData[u].exists
    /\ NewId <= MaxClients
    /\ whatsappClients' = [whatsappClients EXCEPT ![u] = NewId]
    /\ last' = Answer(kind, u, NoClient, "error", "mkdir")
    /\ UNCHANGED <<page, usersFile, clients, userData, qrReqs, destroying, tasks>>

\* mkdirSync throws inside createWhatsAppClient: the route's catch answers 500
GetOrCreateFails(kind, u) ==
    /\ authenticateUser(u)
    /\ whatsappClients[u] = NoClient
    /\ ~userData[u].exists
    /\ last' = Answer(kind, u, NoClient, "error", "mkdir")
    /\ UNCHANGED <<page, usersFile, whatsappClients, clients, userData, qrReqs,
                   destroying, tasks>>

\* GET /whatsapp/status
StatusRequest(u) ==
    /\ authenticateUser(u)
    /\ CanGetOrCreate(u)
    /\ LET c == MapAfterGetOrCreate(u)[u]
           cs == ClientsAfterGetOrCreate(u)
       IN /\ clients' = cs
          /\ last' = Answer("status", u, c, StatusAnswer(cs[c]), "none")
    /\ whatsappClients' = MapAfterGetOrCreate(u)
    /\ userData' = DataAfterGetOrCreate(u)
    /\ UNCHANGED <<page, usersFile, qrReqs, destroying, tasks>>

\* GET /whatsapp/qr: lookup, the early "already connected" answer, else the
\* five listeners are registered and client.initialize() is awaited
QrRequest(u) ==
    /\ authenticateUser(u)
    /\ CanGetOrCreate(u)
    /\ LET c == MapAfterGetOrCreate(u)[u]
           cs == ClientsAfterGetOrCreate(u)
       IN IF cs[c].info
          THEN /\ clients' = cs
               /\ last' = Answer("qr", u, c, "connected", "none")
               /\ qrReqs' = qrReqs
          ELSE /\ Len(qrReqs) < MaxQr
               /\ clients' =
                      [cs EXCEPT ![c].listeners = Append(@, Rid),
                                 ![c].initCalls =
                                     IF cs[c].isReady THEN @ ELSE @ + 1,
                                 ![c].phase =
                                     IF ~cs[c].isReady
                                        /\ @ \in {"disconnected", "auth_failure"}
                                     THEN "none" ELSE @]
               /\ qrReqs' = Append(qrReqs,
                      [userId |-> u, client |-> c, sends |-> 0, resp |-> "none",
                       pc |-> IF cs[c].isReady THEN "skipped" ELSE "initializing"])
               /\ last' = Answer("qr", u, c, "none", "none")
    /\ whatsappClients' = MapAfterGetOrCreate(u)
    /\ userData' = DataAfterGetOrCreate(u)
    /\ UNCHANGED <<page, usersFile, destroying, tasks>>

\* await client.initialize() resolves: the handler ends without answering
InitializeResolves(r) ==
    /\ qrReqs[r].pc = "initializing"
    /\ qrReqs' = [qrReqs EXCEPT ![r].pc = "initialized"]
    /\ UNCHANGED <<page, usersFile, whatsappClients, clients, userData, destroying,
                   last, tasks>>

\* await client.initialize() rejects: the route's catch answers 500
InitializeRejects(r) ==
    /\ qrReqs[r].pc = "initializing"
    /\ qrReqs' = [qrReqs EXCEPT ![r] = [Send(@, "error") EXCEPT !.pc = "failed"]]
    /\ UNCHANGED <<page, usersFile, whatsappClients, clients, userData, destroying,
                   last, tasks>>

\* GET /whatsapp/qr-image
QrImageRequest(u) ==
    /\ authenticateUser(u)
    /\ last' = Answer("qr-image", u, NoClient, QrImageAnswer(u), "none")
    /\ UNCHANGED <<page, usersFile, whatsappClients, clients, userData, qrReqs,
                   destroying, tasks>>

\* the disconnect route without its whatsappClients.delete
MapKeepsEntry(u) == whatsappClients

\* whatsappClients.delete(userId)
MapAfterDelete(u) == [whatsappClients EXCEPT ![u] = NoClient]

\* the disconnect route without its fs.rmSync
DataKeptByRm(u) == userData

\* fs.rmSync on the parent directory of all users
DataAfterRmAll(u) == [v \in Identity |-> [exists |-> FALSE, qr |-> NoFile]]

\* fs.rmSync(userDataPath, { recursive: true, force: true })
DataAfterRm(u) == [userData EXCEPT ![u] = [exists |-> FALSE, qr |-> NoFile]]

\* the disconnect route with getOrCreateWhatsAppClient in place of
\* whatsappClients.get
DisconnectConstructs(u) ==
    /\ authenticateUser(u)
    /\ CanGetOrCreate(u)
    /\ Sum(destroying, ClientId) < MaxDisc
    /\ LET c == MapAfterGetOrCreate(u)[u]
       IN /\ destroying' = [destroying EXCEPT ![c] = @ + 1]
          /\ last' = Answer("disconnect", u, c, "none", "none")
    /\ whatsappClients' = MapAfterGetOrCreate(u)
    /\ clients' = ClientsAfterGetOrCreate(u)
    /\ userData' = DataAfterGetOrCreate(u)
    /\ UNCHANGED <<page, usersFile, qrReqs, tasks>>

\* POST /whatsapp/disconnect up to its await: whatsappClients.get, then either
\* the "no active connection" answer or the call of client.destroy()
DisconnectRequest(u) ==
    /\ authenticateUser(u)
    /\ LET c == whatsappClients[u]
       IN IF c = NoClient
          THEN /\ last' = Answer("disconnect", u, NoClient, "success", "none")
               /\ destroying' = destroying
          ELSE /\ Sum(destroying, ClientId) < MaxDisc
               /\ destroying' = [destroying EXCEPT ![c] = @ + 1]
               /\ last' = Answer("disconnect", u, c, "none", "none")
    /\ UNCHANGED <<page, usersFile, whatsappClients, clients, userData, qrReqs, tasks>>

\* await client.destroy() resolves: the entry and the directory are removed
DestroyResolves(c) ==
    /\ destroying[c] > 0
    /\ destroying' = [destroying EXCEPT ![c] = @ - 1]
    /\ clients' = [clients EXCEPT ![c].destroyed = TRUE]
    /\ whatsappClients' = MapAfterDelete(clients[c].userId)
    /\ userData' = DataAfterRm(clients[c].userId)
    /\ last' = Answer("disconnect", clients[c].userId, c, "success", "none")
    /\ UNCHANGED <<page, usersFile, qrReqs, tasks>>

\* as DestroyResolves, but fs.rmSync throws: the route's catch answers 500
RmFails(c) ==
    /\ destroying[c] > 0
    /\ userData[clients[c].userId].exists
    /\ destroying' = [destroying EXCEPT ![c] = @ - 1]
    /\ clients' = [clients EXCEPT ![c].destroyed = TRUE]
    /\ whatsappClients' = MapAfterDelete(clients[c].userId)
    /\ last' = Answer("disconnect", clients[c].userId, c, "error", "rm")
    /\ UNCHANGED <<page, usersFile, userData, qrReqs, tasks>>

\* await client.destroy() rejects: the route's catch answers 500
DestroyRejects(c) ==
    /\ destroying[c] > 0
    /\ destroying' = [destroying EXCEPT ![c] = @ - 1]
    /\ last' = Answer("disconnect", clients[c].userId, c, "error", "destroy")
    /\ UNCHANGED <<page, usersFile, whatsappClients, clients, userData, qrReqs, tasks>>

----------------------------------------------------------------------------
\* The account routes.  Both handlers run without an await.

\* the characters e[i..j] are a non-empty run without whitespace and @
Plain(e, i, j) == i <= j /\ \A k \in i..j : e[k] \notin {" ", "@"}

\* isValidEmail: /^[^\s@]+@[^\s@]+\.[^\s@]+$/
isValidEmail(e) ==
    \E i, j \in 1..Len(e) :
        /\ e[i] = "@" /\ e[j] = "." /\ i < j
        /\ Plain(e, 1, i - 1) /\ Plain(e, i + 1, j - 1) /\ Plain(e, j + 1, Len(e))

\* readUsersFromFile: the stored array, or [] when reading or parsing throws
readUsersFromFile(ok) == IF ok THEN usersFile ELSE <<>>

\* users.find(user => user.email === email) in the array read
existingUser(users, email) == \E i \in 1..Len(users) : users[i].email = email

\* the validation of the register route passes
ValidBody(email, password) ==
    /\ email # <<>> /\ password # <<>>
    /\ isValidEmail(email)
    /\ Len(password) >= 6

\* a request of an account route and its answer
AccountAnswer(kind, email, u, resp, err) ==
    [kind |-> kind, userId |-> u, client |-> NoClient, resp |-> resp,
     err |-> err, email |-> email]

\* POST /api/users/register: a validation fails, 400
RegisterRejects(email, password) ==
    /\ ~ValidBody(email, password)
    /\ last' = AccountAnswer("register", email, "none", "bad_request", "none")
    /\ UNCHANGED <<page, usersFile, whatsappClients, clients, userData, qrReqs,
                   destroying, tasks>>

\* POST /api/users/register: the email is in the array read, 409
RegisterConflict(email, password, ok) ==
    /\ ValidBody(email, password)
    /\ existingUser(readUsersFromFile(ok), email)
    /\ last' = AccountAnswer("register", email, "none", "conflict", "none")
    /\ UNCHANGED <<page, usersFile, whatsappClients, clients, userData, qrReqs,
                   destroying, tasks>>

\* POST /api/users/register: the new user is pushed on the array read and the
\* array is written, 201; id is the randomUUID
RegisterSaves(email, password, ok, id) ==
    /\ ValidBody(email, password)
    /\ ~existingUser(readUsersFromFile(ok), email)
    /\ id \notin StoredIds
    /\ usersFile' = Append(readUsersFromFile(ok),
                           [userId |-> id, email |-> email, password |-> password])
    /\ last' = AccountAnswer("register", email, id, "created",
                             IF ok THEN "none" ELSE "read")
    /\ UNCHANGED <<page, whatsappClients, clients, userData, qrReqs, destroying,
                   tasks>>

\* POST /api/users/register: writeUsersToFile returns false, 500
RegisterWriteFails(email, password, ok) ==
    /\ ValidBody(email, password)
    /\ ~existingUser(readUsersFromFile(ok), email)
    /\ last' = AccountAnswer("register", email, "none", "error", "write")
    /\ UNCHANGED <<page, usersFile, whatsappClients, clients, userData, qrReqs,
                   destroying, tasks>>

\* POST /api/users/login
Login(email, password, ok) ==
    /\ LET users == readUsersFromFile(ok)
           found == {i \in 1..Len(users) : users[i].email = email}
       IN last' =
              IF email = <<>> \/ password = <<>>
              THEN AccountAnswer("login", email, "none", "bad_request", "none")
              ELSE IF found = {}
              THEN AccountAnswer("login", email, "none", "unauthorized", "none")
              ELSE LET user == users[CHOOSE i \in found : \A k \in found : i <= k]
                   IN IF user.password # password
                      THEN AccountAnswer("login", email, "none", "unauthorized",
                                         "none")
                      ELSE AccountAnswer("login", email, user.userId, "success",
                                         "none")
    /\ UNCHANGED <<page, usersFile, whatsappClients, clients, userData, qrReqs,
                   destroying, tasks>>

----------------------------------------------------------------------------
\* Events of a Client.  The library emits them on a client that is not shut
\* down and has a call of initialize() that did not reject; the listeners
\* are those QrRequest registered on it.

Emits(c) ==
    /\ Live(c)
    /\ \E r \in 1..Len(qrReqs) :
           qrReqs[r].client = c /\ qrReqs[r].pc \in {"initializing", "initialized"}

\* 'qr': every registered 'qr' listener starts rendering the code
EmitQr(c) ==
    /\ Emits(c)
    /\ clients[c].phase \in {"none", "qr"}
    /\ clients[c].codes < MaxCode
    /\ clients' = [clients EXCEPT ![c].codes = @ + 1, ![c].phase = "qr"]
    /\ tasks' = tasks \cup
           {[req |-> clients[c].listeners[i], code |-> clients[c].codes + 1] :
                i \in 1..Len(clients[c].listeners)}
    /\ UNCHANGED <<page, usersFile, whatsappClients, userData, qrReqs, destroying, last>>

\* 'authenticated': the listener logs
EmitAuthenticated(c) ==
    /\ Emits(c)
    /\ clients[c].phase \in {"none", "qr"}
    /\ clients' = [clients EXCEPT ![c].phase = "authenticated"]
    /\ UNCHANGED <<page, usersFile, whatsappClients, userData, qrReqs, destroying,
                   last, tasks>>

\* 'ready': the library has set client.info; the listener logs
EmitReady(c, flag) ==
    /\ Emits(c)
    /\ clients[c].phase \in {"none", "qr", "authenticated"}
    /\ clients' = [clients EXCEPT ![c].phase = "ready", ![c].info = TRUE,
                                  ![c].isReady = flag]
    /\ UNCHANGED <<page, usersFile, whatsappClients, userData, qrReqs, destroying,
                   last, tasks>>

\* 'disconnected': the listener logs; the library keeps or drops its info
EmitDisconnected(c, keeps) ==
    /\ Emits(c)
    /\ clients[c].phase \in {"qr", "authenticated", "ready"}
    /\ clients' = [clients EXCEPT ![c].phase = "disconnected",
                                  ![c].info = @ /\ keeps,
                                  ![c].isReady = @ /\ keeps]
    /\ UNCHANGED <<page, usersFile, whatsappClients, userData, qrReqs, destroying,
                   last, tasks>>

\* 'auth_failure': the listener logs
EmitAuthFailure(c) ==
    /\ Emits(c)
    /\ clients[c].phase \in {"none", "qr"}
    /\ clients' = [clients EXCEPT ![c].phase = "auth_failure"]
    /\ UNCHANGED <<page, usersFile, whatsappClients, userData, qrReqs, destroying,
                   last, tasks>>

\* the 'qr' listener after its awaits: qr-code.png is written and the code is
\* sent on the listener's res; a throw (the directory is gone, or res was
\* already answered) goes to the listener's catch, which sends 500 on res
QrListenerResumes(t) ==
    /\ t \in tasks
    /\ tasks' = tasks \ {t}
    /\ LET u == qrReqs[t.req].userId
       IN IF userData[u].exists
          THEN /\ userData' =
                      [userData EXCEPT ![u].qr = <<qrReqs[t.req].client, t.code>>]
               /\ qrReqs' = [qrReqs EXCEPT ![t.req] =
                                IF @.sends = 0 THEN Send(@, "qr_ready")
                                ELSE Send(Send(@, "qr_ready"), "error")]
          ELSE /\ userData' = userData
               /\ qrReqs' = [qrReqs EXCEPT ![t.req] = Send(@, "error")]
    /\ UNCHANGED <<page, usersFile, whatsappClients, clients, destroying, last>>

----------------------------------------------------------------------------
\* The dashboard page (frontend/script.js).  The answer of a fetch is an input.

\* updateWhatsAppStatus: the text shown for the status of an answer
TextOf(status) ==
    CASE status = "connected" -> "Connected"
      [] status = "disconnected" -> "Disconnected"
      [] OTHER -> "Checking..."

\* the id setInterval returns: one no active timer has
NewTimer == CHOOSE t \in 1..MaxTimers + 1 : t \notin timers

\* clearInterval(qrCodeInterval): clearing null does nothing
Cleared == timers \ {qrCodeInterval}

\* startStatusCheck: the timers after qrCodeInterval = setInterval(...)
StartsTimer == timers \cup {NewTimer}

\* handleLogin with a successful answer: showDashboard calls checkWhatsAppStatus
handleLogin ==
    /\ ~currentUser
    /\ pending["status"] < MaxFetch
    /\ currentUser' = TRUE
    /\ pending' = [pending EXCEPT !["status"] = @ + 1]
    /\ UNCHANGED <<server, qrCodeInterval, timers, statusText>>

\* logout
logout ==
    /\ currentUser
    /\ currentUser' = FALSE
    /\ timers' = IF qrCodeInterval # 0 THEN Cleared ELSE timers
    /\ qrCodeInterval' = 0
    /\ UNCHANGED <<server, statusText, pending>>

\* getQRCode up to its fetch (it returns at once with no user)
getQRCode ==
    /\ currentUser
    /\ pending["qr"] < MaxFetch
    /\ pending' = [pending EXCEPT !["qr"] = @ + 1]
    /\ UNCHANGED <<server, currentUser, qrCodeInterval, timers, statusText>>

\* getQRCode after its fetch: qr_ready starts the status check, connected
\* calls checkWhatsAppStatus, anything else shows a toast
QrAnswered(status) ==
    /\ pending["qr"] > 0
    /\ status = "qr_ready" => Cardinality(timers) < MaxTimers
    /\ status = "connected" /\ currentUser => pending["status"] < MaxFetch
    /\ timers' = IF status = "qr_ready" THEN StartsTimer ELSE timers
    /\ qrCodeInterval' = IF status = "qr_ready" THEN NewTimer ELSE qrCodeInterval
    /\ pending' =
           [pending EXCEPT !["qr"] = @ - 1,
                           !["status"] =
                               IF status = "connected" /\ currentUser
                               THEN @ + 1 ELSE @]
    /\ UNCHANGED <<server, currentUser, statusText>>

\* checkWhatsAppStatus called from the page, after its fetch
StatusAnswered(status) ==
    /\ pending["status"] > 0
    /\ pending' = [pending EXCEPT !["status"] = @ - 1]
    /\ statusText' = TextOf(status)
    /\ UNCHANGED <<server, currentUser, qrCodeInterval, timers>>

\* the callback of an active timer runs: with a user it awaits the fetch of
\* checkWhatsAppStatus, with none checkWhatsAppStatus returns at once and the
\* callback goes on to test the text
TimerFires(t) ==
    /\ t \in timers
    /\ IF currentUser
       THEN /\ pending["poll"] < MaxFetch
            /\ pending' = [pending EXCEPT !["poll"] = @ + 1]
            /\ UNCHANGED <<qrCodeInterval, timers>>
       ELSE /\ timers' = IF statusText = "Connected" THEN Cleared ELSE timers
            /\ qrCodeInterval' =
                   IF statusText = "Connected" THEN 0 ELSE qrCodeInterval
            /\ pending' = pending
    /\ UNCHANGED <<server, currentUser, statusText>>

\* the callback after its await: the text is updated and, if it is
\* Connected, qrCodeInterval is cleared and set to null
PollAnswered(status) ==
    /\ pending["poll"] > 0
    /\ pending' = [pending EXCEPT !["poll"] = @ - 1]
    /\ statusText' = TextOf(status)
    /\ timers' = IF TextOf(status) = "Connected" THEN Cleared ELSE timers
    /\ qrCodeInterval' = IF TextOf(status) = "Connected" THEN 0 ELSE qrCodeInterval
    /\ UNCHANGED <<server, currentUser>>

\* disconnectWhatsApp up to its fetch, the user having confirmed
disconnectWhatsApp ==
    /\ currentUser
    /\ pending["disconnect"] < MaxFetch
    /\ pending' = [pending EXCEPT !["disconnect"] = @ + 1]
    /\ UNCHANGED <<server, currentUser, qrCodeInterval, timers, statusText>>

\* disconnectWhatsApp after its fetch: success calls checkWhatsAppStatus
DisconnectAnswered(ok) ==
    /\ pending["disconnect"] > 0
    /\ ok /\ currentUser => pending["status"] < MaxFetch
    /\ pending' =
           [pending EXCEPT !["disconnect"] = @ - 1,
                           !["status"] = IF ok /\ currentUser THEN @ + 1 ELSE @]
    /\ UNCHANGED <<server, currentUser, qrCodeInterval, timers, statusText>>

----------------------------------------------------------------------------
\* the routes without an await after the registry lookup, and the outcomes
\* of the awaited client.initialize()
Lookups ==
    \/ \E k \in {"qr", "status", "qr-image", "disconnect"}, u \in Identity :
           Rejected(k, u)
    \/ \E k \in {"qr", "status"}, u \in Identity : GetOrCreateFails(k, u)
    \/ \E u \in Identity : StatusRequest(u)
    \/ \E u \in Identity : QrRequest(u)
    \/ \E u \in Identity : QrImageRequest(u)
    \/ \E r \in 1..Len(qrReqs) : InitializeResolves(r)
    \/ \E r \in 1..Len(qrReqs) : InitializeRejects(r)

\* the disconnect route and the outcomes of the awaited client.destroy()
Disconnects ==
    \/ \E u \in Identity : DisconnectRequest(u)
    \/ \E c \in ClientId : DestroyResolves(c)
    \/ \E c \in ClientId : RmFails(c)
    \/ \E c \in ClientId : DestroyRejects(c)

\* the events of the clients and the listeners they run
Events ==
    \/ \E c \in ClientId : EmitQr(c)
    \/ \E c \in ClientId : EmitAuthenticated(c)
    \/ \E c \in ClientId, flag \in BOOLEAN : EmitReady(c, flag)
    \/ \E c \in ClientId, keeps \in BOOLEAN : EmitDisconnected(c, keeps)
    \/ \E c \in ClientId : EmitAuthFailure(c)
    \/ \E t \in tasks : QrListenerResumes(t)

Next == Lookups \/ Disconnects \/ Events
Spec == Init /\ [][Next]_vars

\* The registry while the clients stay silent: every request and every
\* outcome of initialize() and destroy(), no client event.
NextRegistry == Lookups \/ Disconnects
SpecRegistry == Init /\ [][NextRegistry]_vars

\* The sessions while nobody disconnects: every other request, and every
\* client event.
NextSession == Lookups \/ Events
SpecSession == Init /\ [][NextSession]_vars

\* The account store: registrations and logins, users.json readable or not.
NextAccounts ==
    \/ \E e \in Emails, p \in Passwords : RegisterRejects(e, p)
    \/ \E e \in Emails, p \in Passwords, ok \in BOOLEAN : RegisterConflict(e, p, ok)
    \/ \E e \in Emails, p \in Passwords, ok \in BOOLEAN, id \in Identity :
           RegisterSaves(e, p, ok, id)
    \/ \E e \in Emails, p \in Passwords, ok \in BOOLEAN :
           RegisterWriteFails(e, p, ok)
    \/ \E e \in Emails, p \in Passwords, ok \in BOOLEAN : Login(e, p, ok)
SpecAccounts == Init /\ [][NextAccounts]_vars

\* The page: clicks, timers and the answers of its fetches.
NextPage ==
    \/ handleLogin
    \/ logout
    \/ getQRCode
    \/ \E status \in {"qr_ready", "connected", "error"} : QrAnswered(status)
    \/ \E status \in {"connected", "disconnected", "error"} : StatusAnswered(status)
    \/ \E t \in timers : TimerFires(t)
    \/ \E status \in {"connected", "disconnected", "error"} : PollAnswered(status)
    \/ disconnectWhatsApp
    \/ \E ok \in BOOLEAN : DisconnectAnswered(ok)
SpecPage == Init /\ [][NextPage]_vars

\* The event loop runs what is due: an awaited initialize() settles, a client
\* that has an event to emit emits one, and a started rendering completes.
\* Requests come from outside and are not fair.
EmitsEvent ==
    \E c \in ClientId :
        \/ EmitQr(c)
        \/ EmitAuthenticated(c)
        \/ \E flag \in BOOLEAN : EmitReady(c, flag)
        \/ \E keeps \in BOOLEAN : EmitDisconnected(c, keeps)
        \/ EmitAuthFailure(c)
InitializeSettles ==
    \E r \in 1..Len(qrReqs) : InitializeResolves(r) \/ InitializeRejects(r)
ListenerResumes == \E t \in tasks : QrListenerResumes(t)
Fairness ==
    /\ WF_vars(InitializeSettles)
    /\ WF_vars(EmitsEvent)
    /\ WF_vars(ListenerResumes)
SpecSessionFair == SpecSession /\ Fairness

\* One at a time: a single pairing-code request holds its res, and a
\* disconnect is requested only while no other awaits destroy().
OneAtATime == Len(qrReqs') <= 1 /\ Sum(destroying', ClientId) <= 1

\* Sessions set up and torn down one at a time: every request, every outcome
\* and every client event.
NextTeardown == Next /\ OneAtATime
SpecTeardown == Init /\ [][NextTeardown]_vars

\* Two registered accounts.
InitPair ==
    /\ usersFile = <<[userId |-> "u1", email |-> EmailA, password |-> PasswordP],
                     [userId |-> "u2", email |-> EmailB, password |-> PasswordQ]>>
    /\ whatsappClients = [u \in Identity |-> NoClient]
    /\ clients = [c \in ClientId |-> Unbuilt]
    /\ userData = [u \in Identity |-> [exists |-> FALSE, qr |-> NoFile]]
    /\ qrReqs = <<>>
    /\ destroying = [c \in ClientId |-> 0]
    /\ last = NoReq
    /\ tasks = {}
    /\ PageInit

\* the requests of the two accounts that change the registry, the outcomes
\* of initialize() and destroy(), and every client event; mkdirSync and
\* rmSync do not throw and initialize() does not reject
PairSteps ==
    \/ \E u \in Identity : StatusRequest(u)
    \/ \E u \in Identity : QrRequest(u)
    \/ \E r \in 1..Len(qrReqs) : InitializeResolves(r)
    \/ \E u \in Identity : DisconnectRequest(u)
    \/ \E c \in ClientId : DestroyResolves(c)
    \/ \E c \in ClientId : DestroyRejects(c)
    \/ Events
NextPair == PairSteps /\ OneAtATime
SpecPair == InitPair /\ [][NextPair]_vars

----------------------------------------------------------------------------
\* Properties

\* a pairing-code or status request of userId u gets a Client from the
\* registry in this step
Obtains(u) ==
    /\ last'.userId = u
    /\ last'.kind \in {"qr", "status"}
    /\ last'.client # NoClient
    /\ last' # last \/ Len(qrReqs') > Len(qrReqs)

\* a disconnect of userId u is between its call of client.destroy() and the
\* removal of the entry
Disconnecting(u) == \E c \in ClientsOf(u) : destroying[c] > 0

\* a disconnect of userId u ends in this step, destroy() having resolved
Disconnected(u) ==
    /\ \E c \in ClientsOf(u) : destroying'[c] < destroying[c]
    /\ last'.kind = "disconnect" /\ last'.userId = u /\ last'.err # "destroy"

\* C1: every identity has at most one live Client (constructed, not shut down
\* by destroy()), and a live Client is the one the registry holds: no Client
\* leaves the registry without having been shut down.
C1_OneLiveClient ==
    \A u \in Identity :
        /\ Cardinality({c \in ClientsOf(u) : Live(c)}) <= 1
        /\ \A c \in ClientsOf(u) : Live(c) => whatsappClients[u] = c

\* C2: as long as no Client of an identity has been shut down by a disconnect,
\* at most one Client was constructed for it, and every pairing-code and
\* status request that got a Client got that one, the one the registry holds.
C2_OneConstruction ==
    \A u \in Identity :
        (\A c \in ClientsOf(u) : ~clients[c].destroyed) =>
            /\ Cardinality(ClientsOf(u)) <= 1
            /\ \A r \in 1..Len(qrReqs) :
                   qrReqs[r].userId = u =>
                       ClientsOf(u) = {qrReqs[r].client}
                       /\ whatsappClients[u] = qrReqs[r].client
            /\ (last.userId = u /\ last.kind \in {"qr", "status"}
                    /\ last.client # NoClient) =>
                   ClientsOf(u) = {last.client}
                   /\ whatsappClients[u] = last.client

\* three requests of u1, two pairing-code requests and a status request, hold
\* the one Client constructed for u1
C2_Witness ==
    /\ Len(qrReqs) = 2
    /\ \A r \in 1..2 : qrReqs[r].userId = "u1" /\ qrReqs[r].client = 1
    /\ last.kind = "status" /\ last.userId = "u1" /\ last.client = 1
    /\ ClientsOf("u1") = {1}
    /\ ~clients[1].destroyed

\* C3: while a disconnect of an identity is in progress no pairing-code or
\* status request of that identity gets a Client from the registry, and no
\* pairing-code request of it is awaiting client.initialize().
C3_DisconnectExcludesGetOrCreate ==
    [][\A u \in Identity :
           /\ Disconnecting(u) => ~Obtains(u)
           /\ Disconnecting(u)' =>
                  \A r \in 1..Len(qrReqs') :
                      qrReqs'[r].userId = u => qrReqs'[r].pc # "initializing"]_vars

\* C4: when client.destroy() has failed in a disconnect, the identity has no
\* entry in the registry once the disconnect has answered.
C4_RemovedThoughDestroyFailed ==
    (last.kind = "disconnect" /\ last.err = "destroy") =>
        whatsappClients[last.userId] = NoClient

\* C5: a disconnect in which client.destroy() or the removal of the storage
\* area failed answers success, not an error.
C5_CleanupFailureNotSurfaced ==
    (last.kind = "disconnect" /\ last.err \in {"destroy", "rm"}) =>
        last.resp = "success"

\* C6: when a disconnect ends with the Client shut down, the identity has no
\* entry left, so the next getOrCreate constructs; the registry never holds a
\* Client that was shut down, and no request gets one from it.
C6_FreshClientAfterDisconnect ==
    [][\A u \in Identity :
           /\ Disconnected(u) => whatsappClients'[u] = NoClient
           /\ Obtains(u) => ~clients[last'.client].destroyed
           /\ whatsappClients'[u] # NoClient =>
                  ~clients'[whatsappClients'[u]].destroyed]_vars

\* a request got a second Client of u1 after the first was shut down
C6_Witness ==
    /\ clients[1].userId = "u1" /\ clients[1].destroyed
    /\ last.kind \in {"qr", "status"} /\ last.userId = "u1" /\ last.client = 2
    /\ whatsappClients["u1"] = 2

\* C7: a storage area is removed only by a disconnect whose destroy() has
\* resolved, and never while the shutdown of a Client of that identity is
\* still pending.
C7_RemovedOnlyAfterShutdown ==
    [][\A u \in Identity :
           (userData[u].exists /\ ~userData'[u].exists) =>
               /\ \E c \in ClientsOf(u) :
                      destroying'[c] < destroying[c] /\ clients'[c].destroyed
               /\ \A c \in ClientsOf(u) :
                      destroying'[c] > 0 => clients'[c].destroyed]_vars

\* C8: after a 'disconnected' or an 'auth_failure' event of an identity's
\* Client, a status read reports no profile and the pairing image is gone.
C8_ClearedAfterDisconnected ==
    \A u \in Identity :
        LET c == whatsappClients[u]
        IN (c # NoClient /\ clients[c].phase \in {"disconnected", "auth_failure"}) =>
               /\ StatusAnswer(clients[c]) = "disconnected"
               /\ QrImageAnswer(u) = "not_found"

\* C9: after a 'ready' event of an identity's Client its profile info is set
\* and the pairing image is gone.
C9_ArtifactClearedWhenReady ==
    \A u \in Identity :
        LET c == whatsappClients[u]
        IN (c # NoClient /\ clients[c].phase = "ready") =>
               /\ clients[c].info
               /\ QrImageAnswer(u) = "not_found"

\* C10: no pairing-code request is answered more than once.
C10_AtMostOneResponse ==
    \A r \in 1..Len(qrReqs) : qrReqs[r].sends <= 1

\* C11: every pairing-code request whose res is held by the listeners gets an
\* answer eventually, whichever events the client emits.
C11_QrEventuallyAnswered ==
    \A r \in 1..MaxQr :
        (Len(qrReqs) >= r) ~> (Len(qrReqs) >= r /\ qrReqs[r].sends > 0)

\* C12: the pairing image of a Client is never replaced by the rendering of an
\* earlier code of that Client.
C12_LatestCodeStored ==
    [][\A u \in Identity :
           (userData[u].qr # NoFile /\ userData'[u].qr # NoFile
                /\ userData'[u].qr[1] = userData[u].qr[1]) =>
               userData'[u].qr[2] >= userData[u].qr[2]]_vars

\* C13: while the Client the registry holds for an identity is in the state
\* its 'ready' event left, a status read answers connected.
C13_ConnectedAfterReady ==
    \A u \in Identity :
        LET c == whatsappClients[u]
        IN (c # NoClient /\ clients[c].phase = "ready") =>
               StatusAnswer(clients[c]) = "connected"

\* a disconnect request of userId u is received in this step
DisconnectArrives(u) ==
    /\ last'.kind = "disconnect" /\ last'.userId = u /\ last' # last
    /\ \A c \in ClientId : destroying'[c] >= destroying[c]

\* a disconnect of userId u, which had a Client, ends with success in this step
DisconnectSucceeds(u) ==
    /\ last'.kind = "disconnect" /\ last'.userId = u /\ last'.resp = "success"
    /\ last'.client # NoClient
    /\ destroying'[last'.client] < destroying[last'.client]

\* a request of the given kind of userId u is handled in this step
Handles(kind, u) == last'.kind = kind /\ last'.userId = u /\ last' # last

C15_DisconnectWithoutSession ==
    [][\A u \in Identity :
           (u \in StoredIds /\ whatsappClients[u] = NoClient
                /\ DisconnectArrives(u)) =>
               /\ last'.resp = "success"
               /\ UNCHANGED <<whatsappClients, clients, userData, destroying>>]_vars

\* u1 had a Client, a disconnect shut it down, and a further disconnect found
\* no entry
C15_Witness ==
    /\ last = Answer("disconnect", "u1", NoClient, "success", "none")
    /\ clients[1].userId = "u1" /\ clients[1].destroyed
    /\ userData["u1"].exists = FALSE

\* The six named states of a session, and the state named by a tag of the
\* routes' answers: connected is ready, qr_ready is pairing.
SessionStates ==
    {"uninitialized", "pairing", "authenticated", "ready", "disconnected",
     "auth_failed"}
StateOfTag(tag) ==
    CASE tag = "connected" -> "ready"
      [] tag = "qr_ready" -> "pairing"
      [] OTHER -> tag

C17_UnknownIdentityRejected ==
    [][\A u \in Identity :
           /\ (u \notin StoredIds /\ last'.userId = u /\ last' # last) =>
                  /\ last'.resp = "not_found"
                  /\ last'.client = NoClient
                  /\ UNCHANGED <<whatsappClients, clients, userData, qrReqs,
                                 destroying, tasks>>
           /\ u \notin StoredIds =>
                  /\ whatsappClients'[u] = NoClient
                  /\ ~userData'[u].exists
                  /\ \A c \in ClientId : clients'[c].userId # u]_vars

\* a pairing-code request of the unknown u2 was rejected while u1 has a Client
C17_Witness ==
    /\ last = Answer("qr", "u2", NoClient, "not_found", "none")
    /\ whatsappClients["u1"] # NoClient

\* C18: when mkdirSync fails in getOrCreateWhatsAppClient the request answers
\* an error, no Client is constructed and no entry is added; a request that
\* finds no entry constructs a Client that did not exist before.
C18_MkdirFailureLeavesNoEntry ==
    [][/\ (last'.err = "mkdir" /\ last' # last) =>
              /\ last'.resp = "error"
              /\ last'.client = NoClient
              /\ whatsappClients'[last'.userId] = NoClient
              /\ UNCHANGED <<whatsappClients, clients, userData>>
       /\ \A u \in Identity :
              (Obtains(u) /\ whatsappClients[u] = NoClient) =>
                  /\ last'.client \notin Built
                  /\ clients'[last'.client].userId = u
                  /\ ~clients'[last'.client].destroyed
                  /\ whatsappClients'[u] = last'.client
                  /\ userData'[u].exists]_vars

\* mkdirSync failed for a status request of u1, which has no entry
C18_Witness ==
    /\ last = Answer("status", "u1", NoClient, "error", "mkdir")
    /\ whatsappClients["u1"] = NoClient
    /\ ~userData["u1"].exists

\* the step is a request of userId a, an outcome of one of its awaits or an
\* event of one of its Clients
StepOf(a) ==
    \/ last' # last /\ last'.userId = a
    \/ Len(qrReqs') > Len(qrReqs) /\ qrReqs'[Len(qrReqs')].userId = a
    \/ \E r \in 1..Len(qrReqs) : qrReqs[r].userId = a /\ qrReqs'[r] # qrReqs[r]
    \/ \E c \in ClientId :
           /\ clients'[c].userId = a
           /\ clients'[c] # clients[c] \/ destroying'[c] # destroying[c]

\* the step leaves the entry, the Clients, the held requests and the
\* directory of userId b as they were
Untouched(b) ==
    /\ whatsappClients'[b] = whatsappClients[b]
    /\ userData'[b] = userData[b]
    /\ \A c \in ClientsOf(b) :
           clients'[c] = clients[c] /\ destroying'[c] = destroying[c]
    /\ \A r \in 1..Len(qrReqs) : qrReqs[r].userId = b => qrReqs'[r] = qrReqs[r]

\* C19: a step of one identity leaves every other identity untouched, and
\* while a disconnect of one identity awaits destroy() a status request of
\* another can be handled at once.
C19_IdentitiesIndependent ==
    [][\A a, b \in Identity :
           a # b =>
               /\ StepOf(a) => Untouched(b)
               /\ (Disconnecting(a) /\ authenticateUser(b) /\ CanGetOrCreate(b))
                      => ENABLED StatusRequest(b)]_vars

\* while a disconnect of u1 awaits destroy(), a status request of u2 was
\* answered; u2 keeps its Client and its directory
C19_Witness ==
    /\ whatsappClients["u1"] # NoClient
    /\ destroying[whatsappClients["u1"]] > 0
    /\ last.kind = "status" /\ last.userId = "u2" /\ last.client # NoClient
    /\ whatsappClients["u2"] = last.client
    /\ userData["u2"].exists

\* C20: no Client has more than one listener of an event kind (every
\* pairing-code request registers one listener of each of the five kinds).
C20_ListenersRegisteredOnce ==
    \A c \in ClientId : Len(clients[c].listeners) <= 1

\* C23: client.initialize() is called at most once on every Client.
C23_InitializeOnce ==
    \A c \in ClientId : clients[c].initCalls <= 1

\* C24: a status request leaves the registry and the set of existing
\* directories as they were.
C24_StatusReadOnly ==
    [][\A u \in Identity :
           Handles("status", u) =>
               /\ whatsappClients' = whatsappClients
               /\ \A v \in Identity : userData'[v].exists = userData[v].exists]_vars

\* C25: for the Client the registry holds for an identity, the pairing-code
\* route's test of connectedness (client.info) holds exactly when a status read
\* answers connected.
C25_QrAndStatusAgree ==
    \A u \in Identity :
        LET c == whatsappClients[u]
        IN c # NoClient =>
               (clients[c].info <=> StatusAnswer(clients[c]) = "connected")

\* a registration with email e passes the validation and is answered in this
\* step
Registers(e) ==
    /\ last'.kind = "register" /\ last'.email = e /\ last'.resp # "bad_request"
    /\ last' # last \/ usersFile' # usersFile

\* C22: a registration with the email of a stored user answers conflict and
\* leaves users.json as it was, and no two stored users have the same email.
C22_RegistrationConflict ==
    [][/\ \A e \in Emails :
              (Registers(e) /\ existingUser(usersFile, e)) =>
                  last'.resp = "conflict" /\ usersFile' = usersFile
       /\ \A i, j \in 1..Len(usersFile') :
              i # j => usersFile'[i].email # usersFile'[j].email]_vars

\* C21: at most one status-polling timer is active, and an active timer is
\* the one qrCodeInterval holds, the one the poller clears when it sees
\* Connected.
C21_OnePollingTimer ==
    /\ Cardinality(timers) <= 1
    /\ \A t \in timers : t = qrCodeInterval
====
